---- MODULE Spec2Model ----
(***************************************************************************)
(* Model of the Tetris planner of nervgh/tetris-problem:                   *)
(*   src/script.js          Figure, TetrisFigure, TetrisWorld,             *)
(*                          TetrisProblemSolver                            *)
(*   src/unnamed/part_001   PriorityQueue, GraphNode, bestFirstGraphSearch,*)
(*                          astarGraphSearch                               *)
(* A figure is a record [m, c]: m the ordered sequence of <<x, y>> pairs   *)
(* (the rows of Figure.m), c the 0-based index of the center pair.         *)
(* A world is the matrix TetrisWorld.m as a sequence of rows; the cell     *)
(* (x, y) is world[y + 1][x + 1].                                          *)
(***************************************************************************)
EXTENDS Integers, Sequences, FiniteSets, TLC

\* ------------------------------------------------------------------ bounds
MaxWidth == 4
MaxHeight == 4
MaxWalls == 1
MaxPockets == 1
MaxOps == 3

\* ------------------------------------------------- TetrisWorld.THING table
EMPTY_SPACE == 0
WALL == 1
FIGURE == 2

\* ------------------------------------------------------- TetrisFigure.KIND
KIND == {"I", "O", "L", "J", "S", "Z", "T"}

\* ---------------------------------------------------------------- helpers
Abs(n) == IF n < 0 THEN -n ELSE n

RECURSIVE SeqMin(_)
SeqMin(s) ==
  IF Len(s) = 1 THEN s[1]
  ELSE LET r == SeqMin(Tail(s)) IN IF s[1] < r THEN s[1] ELSE r

RECURSIVE SeqMax(_)
SeqMax(s) ==
  IF Len(s) = 1 THEN s[1]
  ELSE LET r == SeqMax(Tail(s)) IN IF s[1] > r THEN s[1] ELSE r

RECURSIVE SeqSum(_)
SeqSum(s) == IF Len(s) = 0 THEN 0 ELSE s[1] + SeqSum(Tail(s))

RECURSIVE Concat(_)
Concat(ss) == IF Len(ss) = 0 THEN <<>> ELSE ss[1] \o Concat(Tail(ss))

\* Array.prototype.filter with the predicate given as the set of kept values
RECURSIVE FilterIn(_, _)
FilterIn(s, keep) ==
  IF Len(s) = 0 THEN <<>>
  ELSE (IF s[1] \in keep THEN <<s[1]>> ELSE <<>>) \o FilterIn(Tail(s), keep)

\* ================================================================== Figure
\* new Matrix(m): element-wise sums and differences of two n x 2 matrices
MatAdd(a, b) == <<>> \o [i \in 1..Len(a) |-> <<a[i][1] + b[i][1], a[i][2] + b[i][2]>>]

MatSubtract(a, b) == <<>> \o [i \in 1..Len(a) |-> <<a[i][1] - b[i][1], a[i][2] - b[i][2]>>]

\* (n x 2) times (2 x 2)
MatMultiply(a, r) ==
  <<>> \o [i \in 1..Len(a) |-> <<a[i][1] * r[1][1] + a[i][2] * r[2][1],
                                  a[i][1] * r[1][2] + a[i][2] * r[2][2]>>]

Clone(fig) == [m |-> fig.m, c |-> fig.c]

CreateVectorMatrix(fig, vec) == <<>> \o [i \in 1..Len(fig.m) |-> vec]

GetBounds(fig) ==
  LET xs == <<>> \o [i \in 1..Len(fig.m) |-> fig.m[i][1]]
      ys == <<>> \o [i \in 1..Len(fig.m) |-> fig.m[i][2]]
  IN  <<  <<SeqMin(xs), SeqMin(ys)>>, <<SeqMax(xs), SeqMax(ys)>>  >>

GetCenter(fig) == fig.m[fig.c + 1]

Move(fig, vec) == [fig EXCEPT !.m = MatAdd(fig.m, CreateVectorMatrix(fig, vec))]

SupportedRotations == {90, 180, 270}

RotationsBroken(degree) ==
  CASE degree = 90 -> << <<0, -1>>, <<1, 0>> >>
    [] degree = 180 -> << <<-1, 0>>, <<0, -1>> >>
    [] degree = 270 -> << <<0, -1>>, <<1, 0>> >>

Rotations(degree) ==
  CASE degree = 90 -> << <<0, -1>>, <<1, 0>> >>
    [] degree = 180 -> << <<-1, 0>>, <<0, -1>> >>
    [] degree = 270 -> << <<0, 1>>, <<-1, 0>> >>

\* a key brought into 0..359 before the lookup
RotationKeyNormalized(degree) == degree % 360

\* the property key rotations[degree] is looked up with: the number as given
RotationKey(degree) == degree

\* const aR = rotations[degree]; if (!aR) throw new Error('Unsupported rotation')
RotateThrows(degree) == RotationKey(degree) \notin SupportedRotations

Rotate(fig, degree) ==
  LET mR == Rotations(RotationKey(degree))
      mCenter == CreateVectorMatrix(fig, GetCenter(fig))
      mRelative == MatSubtract(fig.m, mCenter)
      mRotated == MatMultiply(mRelative, mR)
  IN  [fig EXCEPT !.m = MatAdd(mRotated, mCenter)]

\* translate without the conversion to relative coordinates
TranslateKeepsOffset(fig, vec) ==
  [fig EXCEPT !.m = MatAdd(fig.m, CreateVectorMatrix(fig, vec))]

Translate(fig, vec) ==
  LET mCenter == CreateVectorMatrix(fig, GetCenter(fig))
      mRelative == MatSubtract(fig.m, mCenter)
      mNewCenter == CreateVectorMatrix(fig, vec)
  IN  [fig EXCEPT !.m = MatAdd(mRelative, mNewCenter)]

\* ============================================================ TetrisFigure
\* get id: '[' + String(this.m.data) + ']', the row-major coordinate list
Id(fig) == Concat(<<>> \o [i \in 1..Len(fig.m) |-> <<fig.m[i][1], fig.m[i][2]>>])

Factory(type) ==
  CASE type = "I" -> [m |-> << <<0, 0>>, <<0, 1>>, <<0, 2>>, <<0, 3>> >>, c |-> 1]
    [] type = "O" -> [m |-> << <<0, 0>>, <<1, 0>>, <<1, 1>>, <<0, 1>> >>, c |-> 0]
    [] type = "L" -> [m |-> << <<0, 0>>, <<0, 1>>, <<0, 2>>, <<1, 2>> >>, c |-> 1]
    [] type = "J" -> [m |-> << <<1, 0>>, <<1, 1>>, <<1, 2>>, <<0, 2>> >>, c |-> 1]
    [] type = "S" -> [m |-> << <<0, 1>>, <<1, 1>>, <<1, 0>>, <<2, 0>> >>, c |-> 1]
    [] type = "Z" -> [m |-> << <<0, 0>>, <<1, 0>>, <<1, 1>>, <<2, 1>> >>, c |-> 2]
    [] type = "T" -> [m |-> << <<0, 1>>, <<1, 0>>, <<1, 1>>, <<2, 1>> >>, c |-> 2]

\* ============================================================= TetrisWorld
Width(world) == Len(world[1])

Height(world) == Len(world)

Get(world, x, y) == world[y + 1][x + 1]

InRangePoint(world, vec) ==
  LET minX == 0
      minY == 0
      maxX == Width(world) - 1
      maxY == Height(world) - 1
  IN  vec[1] >= minX /\ vec[1] <= maxX /\ vec[2] >= minY /\ vec[2] <= maxY

InRange(world, fig) ==
  LET b == GetBounds(fig) IN InRangePoint(world, b[1]) /\ InRangePoint(world, b[2])

\* figure.each + this.m.set(y, x, v) for the points inside the world
SetPoints(world, fig, v) ==
  LET pts == {fig.m[i] : i \in 1..Len(fig.m)}
  IN  <<>> \o [r \in 1..Height(world) |->
        <<>> \o [q \in 1..Width(world) |->
          IF <<q - 1, r - 1>> \in pts THEN v ELSE world[r][q]]]

DislocateKeepsMark(world, fig) == world

\* locate without the inRangePoint test: m.set(y, x, v) writes the element
\* y * width + x of the row-major data when the data has that element
LocateUnchecked(world, fig) ==
  LET w == Width(world)
      flat == {fig.m[i][2] * w + fig.m[i][1] : i \in 1..Len(fig.m)}
  IN  <<>> \o [r \in 1..Height(world) |->
        <<>> \o [q \in 1..w |->
          IF ((r - 1) * w + (q - 1)) \in flat THEN FIGURE ELSE world[r][q]]]

Dislocate(world, fig) == SetPoints(world, fig, EMPTY_SPACE)

Locate(world, fig) == SetPoints(world, fig, FIGURE)

\* the indexes at which mayLocate writes things[i]: the points inside the world
ThingsSet(world, fig) == {i \in 0..(Len(fig.m) - 1) : InRangePoint(world, fig.m[i + 1])}

\* things.length when a write at an index past the end did not grow the array
ThingsLengthFixed(world, fig) == Len(fig.m[1])

\* things.length: new Array(figure.m.shape[1]) has the length of a point (2),
\* a write at an index past the end grows it to that index + 1
ThingsLength(world, fig) ==
  LET set == ThingsSet(world, fig)
      c == Len(fig.m[1])
      last == IF set = {} THEN -1 ELSE CHOOSE i \in set : \A j \in set : j <= i
  IN  IF last + 1 > c THEN last + 1 ELSE c

\* every() visits the indexes below things.length and skips the holes
MayLocate(world, fig) ==
  \A i \in 0..(ThingsLength(world, fig) - 1) :
    i \in ThingsSet(world, fig) =>
      EMPTY_SPACE = Get(world, fig.m[i + 1][1], fig.m[i + 1][2])

\* sample(xStart, yStart): round[r][q] is Math.round of the random value of
\* the cell; the second pass empties the cells with y <= yStart or x <= xStart
Sample(world, xStart, yStart, round) ==
  <<>> \o [r \in 1..Height(world) |->
    <<>> \o [q \in 1..Width(world) |->
      IF (r - 1) > yStart /\ (q - 1) > xStart
        THEN (IF round[r][q] > 0 THEN WALL ELSE EMPTY_SPACE)
        ELSE EMPTY_SPACE]]

\* ===================================================== TetrisProblemSolver
\* unique that returns the items as they are
UniqueKeepsAll(items, ids) == items

\* unique(items, id): a Map keyed by id keeps the position of the first
\* occurrence of a key and the value written last; ids[i] is id(items[i])
RECURSIVE UniqueFrom(_, _, _)
UniqueFrom(items, ids, i) ==
  IF i > Len(items) THEN <<>>
  ELSE LET isFirst == \A j \in 1..(i - 1) : ids[j] # ids[i]
           last == CHOOSE j \in i..Len(items) :
                     /\ ids[j] = ids[i]
                     /\ \A k \in (j + 1)..Len(items) : ids[k] # ids[i]
       IN  (IF isFirst THEN <<items[last]>> ELSE <<>>) \o UniqueFrom(items, ids, i + 1)

Unique(items, ids) == UniqueFrom(items, ids, 1)

GetPermutationsOfFigureAtPoint(fig, vec) ==
  LET a == Translate(Clone(fig), vec)
      b == Rotate(Clone(a), 90)
      c == Rotate(Clone(a), 180)
      d == Rotate(Clone(a), 270)
  IN  <<a, b, c, d>>

GetPermutationsOfFigureAtPoints(fig, points) ==
  LET arr == Concat(<<>> \o [i \in 1..Len(points) |-> GetPermutationsOfFigureAtPoint(fig, points[i])])
  IN  Unique(arr, <<>> \o [i \in 1..Len(arr) |-> Id(arr[i])])

\* the filter without the inRange test
GetLocatableSkipsRange(world, sts) ==
  FilterIn(sts, {s \in {sts[i] : i \in 1..Len(sts)} : MayLocate(world, s)})

GetLocatableStatesOnly(world, sts) ==
  FilterIn(sts, {s \in {sts[i] : i \in 1..Len(sts)} : InRange(world, s) /\ MayLocate(world, s)})

\* The estimation (notEmptyThingsCount / allThings.length) + (ySum / len) as
\* the exact fraction num / den, and the world the call leaves behind.
EstimateLocationOfFigure(world, goal, test) ==
  LET points == test.m
      len == Len(points)
      variants == Concat(<<>> \o [i \in 1..len |->
                    << <<points[i][1] + 1, points[i][2]>>, <<points[i][1] - 1, points[i][2]>>,
                       <<points[i][1], points[i][2] + 1>>, <<points[i][1], points[i][2] - 1>> >>])
      uniq == Unique(variants, variants)
      allThings == FilterIn(uniq, {p \in {uniq[i] : i \in 1..Len(uniq)} : InRangePoint(world, p)})
      located == Locate(world, test)
      notEmptyThingsCount ==
        SeqSum(<<>> \o [i \in 1..Len(allThings) |->
                 IF Get(located, allThings[i][1], allThings[i][2]) # EMPTY_SPACE THEN 1 ELSE 0])
      ySum == SeqSum(<<>> \o [i \in 1..len |-> points[i][2]])
  IN  [num |-> notEmptyThingsCount * len + ySum * Len(allThings),
       den |-> Len(allThings) * len,
       world |-> Dislocate(located, test)]

\* the comparator's sign test estB - estA > 0, on the exact fractions
EstGreater(eB, eA) == eB.num * eA.den > eA.num * eB.den

\* The calls of estimateLocationOfFigure made by the comparator of
\* states.sort, taken one state after the other: the world after the
\* estimations of sts[1..n]
RECURSIVE EstimatedWorld(_, _, _, _)
EstimatedWorld(world, goal, sts, n) ==
  IF n = 0 THEN world
  ELSE EstimateLocationOfFigure(EstimatedWorld(world, goal, sts, n - 1), goal, sts[n]).world

\* Array.prototype.sort is stable: the order of 1..n in which j stands
\* before i iff the comparator puts j first, or puts neither first and
\* j < i; first is the set of pairs <<j, i>> of which the comparator puts j first
StableSortIdx(n, first) ==
  LET pos(i) == Cardinality({j \in 1..n : <<j, i>> \in first
                                           \/ (j < i /\ <<i, j>> \notin first)}) + 1
  IN  <<>> \o [k \in 1..n |-> CHOOSE i \in 1..n : pos(i) = k]

\* states.sort((a, b) => estB - estA) of solve; no comparator call for
\* fewer than two states
SortStates(world, goal, sts) ==
  IF Len(sts) < 2 THEN [states |-> sts, world |-> world]
  ELSE LET est == <<>> \o [i \in 1..Len(sts) |->
                    EstimateLocationOfFigure(EstimatedWorld(world, goal, sts, i - 1), goal, sts[i])]
           first == {ij \in (1..Len(sts)) \X (1..Len(sts)) : EstGreater(est[ij[1]], est[ij[2]])}
           idxs == StableSortIdx(Len(sts), first)
       IN  [states |-> <<>> \o [k \in 1..Len(sts) |-> sts[idxs[k]]],
            world |-> EstimatedWorld(world, goal, sts, Len(sts))]

DistanceManhattanBetweenPoints(p1, p2) == Abs(p1[1] - p2[1]) + Abs(p1[2] - p2[2])

\* k / n of the code as the pair: k is returned, n is Len(f1.m)
DistanceManhattanBetweenFigures(f1, f2) ==
  SeqSum(<<>> \o [i \in 1..Len(f1.m) |-> DistanceManhattanBetweenPoints(f1.m[i], f2.m[i])])

\* the cells of row y that hold EMPTY_SPACE, left to right
EmptyCellsOfRow(world, y) ==
  LET row == <<>> \o [q \in 1..Width(world) |-> <<q - 1, y>>]
  IN  FilterIn(row, {p \in {row[q] : q \in 1..Len(row)} : Get(world, p[1], p[2]) = EMPTY_SPACE})

\* the legal candidate states of row y, before the sort
StatesOfRow(world, fig, y) ==
  GetLocatableStatesOnly(world, GetPermutationsOfFigureAtPoints(fig, EmptyCellsOfRow(world, y)))

\* ================================================================ GraphNode
\* JavaScript's null and undefined as values of their own
Null == [null |-> TRUE]

Undefined == [undefined |-> TRUE]

\* constructor (state = null): the second and third arguments of
\* new GraphNode(state, node, node.pathCost + 1) are not taken
GraphNode(state, parent, pathCost) == [state |-> state, pathCost |-> 0]

\* the property read node.parent
GetParent(node) == IF "parent" \in DOMAIN node THEN node.parent ELSE Undefined

\* ============================================= astarSearchOptions, f of A*
IsGoal(node, goalState) == Id(node.state) = Id(goalState)

\* h(n) reads n.state.toArray(): a TypeError unless n has a state
HThrows(n) == "state" \notin DOMAIN n

\* f = n => n.pathCost + h(n) with h = k / len, returned as len * f so that
\* it stays an integer: len * pathCost + k
F(n, goalState) ==
  Len(goalState.m) * n.pathCost + DistanceManhattanBetweenFigures(n.state, goalState)

\* getSuccessorsOf with the step down among the untrusted states
GetSuccessorsWithDown(world, node) ==
  LET fig == node.state
      untrustedStates ==
        << Move(Clone(fig), <<0, -1>>),
           Move(Clone(fig), <<-1, 0>>),
           Move(Clone(fig), <<1, 0>>),
           Move(Clone(fig), <<0, 1>>) >>
        \o GetPermutationsOfFigureAtPoint(fig, GetCenter(fig))
      sts == GetLocatableStatesOnly(world, untrustedStates)
  IN  <<>> \o [i \in 1..Len(sts) |-> GraphNode(sts[i], node, node.pathCost + 1)]

GetSuccessorsOf(world, node) ==
  LET fig == node.state
      untrustedStates ==
        << Move(Clone(fig), <<0, -1>>),
           Move(Clone(fig), <<-1, 0>>),
           Move(Clone(fig), <<1, 0>>) >>
        \o GetPermutationsOfFigureAtPoint(fig, GetCenter(fig))
      sts == GetLocatableStatesOnly(world, untrustedStates)
  IN  <<>> \o [i \in 1..Len(sts) |-> GraphNode(sts[i], node, node.pathCost + 1)]

\* ============================================================ PriorityQueue
\* an entry is [cost, id, item]; order 'min' stores cost = -f(item)
PQEntry(item, goalState) ==
  [cost |-> -F(item, goalState), id |-> Id(item.state), item |-> item]

\* this.__queue.sort((a, b) => a[0] - b[0]), stable, ascending cost
SortByCost(q) ==
  LET first == {ij \in (1..Len(q)) \X (1..Len(q)) : q[ij[1]].cost < q[ij[2]].cost}
      idxs == StableSortIdx(Len(q), first)
  IN  <<>> \o [k \in 1..Len(q) |-> q[idxs[k]]]

PQAppend(q, item, goalState) == SortByCost(Append(q, PQEntry(item, goalState)))

\* contains that finds no entry
PQContainsNever(q, item) == FALSE

PQContains(q, item) == \E i \in 1..Len(q) : q[i].id = Id(item.state)

PQFindIndex(q, itemId) ==
  CHOOSE i \in 1..Len(q) : q[i].id = itemId /\ \A j \in 1..(i - 1) : q[j].id # itemId

\* returns this.__queue[idx], the whole entry
PQGet(q, item) == q[PQFindIndex(q, Id(item.state))]

PQLength(q) == Len(q)

\* Array.prototype.shift in the place of pop: the entry of least cost
PQPopFirst(q) == [item |-> q[1].item, queue |-> SubSeq(q, 2, Len(q))]

\* Array.prototype.pop: the last entry, the one of greatest cost
PQPop(q) == [item |-> q[Len(q)].item, queue |-> SubSeq(q, 1, Len(q) - 1)]

\* findIndex gives -1 for an id the queue does not hold, and splice(-1, 1)
\* takes the last entry out
PQRemove(q, item) ==
  LET idx == IF PQContains(q, item) THEN PQFindIndex(q, Id(item.state)) ELSE -1
  IN  IF idx = -1
      THEN SubSeq(q, 1, Len(q) - 1)
      ELSE SubSeq(q, 1, idx - 1) \o SubSeq(q, idx + 1, Len(q))

\* ===================================================== bestFirstGraphSearch
ExploredAddForgets(explored, itemId) == explored

ExploredAdd(explored, itemId) == explored \cup {itemId}

\* the for loop over getSuccessorsOf(node), from the i-th child on; thrown
\* tells that f(incumbent) raised the TypeError of HThrows
RECURSIVE ForEachChild(_, _, _, _, _)
ForEachChild(children, i, frontier, explored, goalState) ==
  IF i > Len(children) THEN [frontier |-> frontier, thrown |-> FALSE]
  ELSE LET child == children[i] IN
    IF Id(child.state) \notin explored /\ ~PQContains(frontier, child)
    THEN ForEachChild(children, i + 1, PQAppend(frontier, child, goalState), explored, goalState)
    ELSE IF PQContains(frontier, child)
    THEN LET incumbent == PQGet(frontier, child) IN
         IF HThrows(incumbent)
         THEN [frontier |-> frontier, thrown |-> TRUE]
         ELSE IF F(child, goalState) < F(incumbent, goalState)
              THEN ForEachChild(children, i + 1,
                     PQAppend(PQRemove(frontier, incumbent), child, goalState),
                     explored, goalState)
              ELSE ForEachChild(children, i + 1, frontier, explored, goalState)
    ELSE ForEachChild(children, i + 1, frontier, explored, goalState)

\* ================================================================== state
VARIABLES
  world,      \* TetrisWorld.m of the world handed to solve
  figure,     \* the figure handed to solve
  world0,     \* history: the world at the call
  figure0,    \* history: the figure at the call
  y,          \* row of the outer for loop of solve
  states,     \* the sorted legal states of row y
  idx,        \* position of the for-of loop in states (1-based)
  frontier,   \* PriorityQueue.__queue of the running search
  explored,   \* the Set of explored ids of the running search
  node,       \* loop variable of the backtrace
  path,       \* the path being collected by the backtrace
  pc,         \* control point of solve
  outcome,    \* "running", "returned" or "threw"
  result,     \* the value solve returned
  thrownAt,   \* the expression that raised the TypeError, or "none"
  estimated,  \* history: the sort comparator has run
  exhausted,  \* history: number of searches that returned null
  settled,    \* history: the state whose search returned a goal node
  tick,       \* history: parity of the number of steps solve has taken
  gFig,       \* geometry: the figure operated on
  gLog        \* geometry: the operations applied, with the figure before each

solverVars == <<world, figure, world0, figure0, y, states, idx, frontier, explored,
                node, path, pc, outcome, result, thrownAt, estimated, exhausted, settled,
                tick>>

geomVars == <<gFig, gLog>>

vars == <<world, figure, world0, figure0, y, states, idx, frontier, explored,
          node, path, pc, outcome, result, thrownAt, estimated, exhausted, settled,
          tick, gFig, gLog>>

\* ================================================================= inputs
Cells == {<<cx, cy>> : cx \in 0..(MaxWidth - 1), cy \in 0..(MaxHeight - 1)}

\* new TetrisWorld(m) for the matrix with WALL on walls, EMPTY_SPACE elsewhere
WorldOf(walls) ==
  <<>> \o [r \in 1..MaxHeight |->
    <<>> \o [q \in 1..MaxWidth |-> IF <<q - 1, r - 1>> \in walls THEN WALL ELSE EMPTY_SPACE]]

\* factory(kind) moved by [randomX, 0], randomX between the left bound of
\* the figure and (world.width - 1) minus its right bound
SpawnFigures ==
  UNION {{Move(Factory(k), <<randomX, 0>>) :
            randomX \in GetBounds(Factory(k))[1][1]..((MaxWidth - 1) - GetBounds(Factory(k))[2][1])} :
         k \in KIND}

PointsOf(fig) == {fig.m[i] : i \in 1..Len(fig.m)}

\* every pose the solver can build from fig: fig translated to a cell and
\* turned by 0/90/180/270, kept when it lies inside the grid
PosesOf(fig) ==
  {p \in UNION {{GetPermutationsOfFigureAtPoint(fig, cell)[j] : j \in 1..4} : cell \in Cells} :
     InRange(WorldOf({}), p)}

\* The worlds solve is run on: the empty grid, an empty grid with one
\* horizontal run of at most MaxWalls WALL cells, and grids that are WALL
\* everywhere but for a shaft: the cells of one pose of the figure and of its
\* copies moved up by fewer than MaxPockets rows (no pose: the full world).
InputWorlds(fig) ==
  {WorldOf({})} \cup
  {WorldOf({<<cell[1] + i, cell[2]>> : i \in 0..(k - 1)} \cap Cells) :
     cell \in Cells, k \in 1..MaxWalls} \cup
  {WorldOf(Cells)} \cup
  {WorldOf(Cells \ UNION {PointsOf(Move(p, <<0, 0 - i>>)) : i \in 0..(k - 1)}) :
     p \in PosesOf(fig), k \in 1..MaxPockets}

\* ================================================================== solve
Init ==
  /\ figure \in SpawnFigures
  /\ world \in InputWorlds(figure)
  /\ world0 = world /\ figure0 = figure
  /\ y = Height(world) - 1
  /\ states = <<>> /\ idx = 1 /\ frontier = <<>> /\ explored = {}
  /\ node = Null /\ path = <<>> /\ result = <<>>
  /\ pc = "row" /\ outcome = "running" /\ thrownAt = "none"
  /\ estimated = FALSE /\ exhausted = 0 /\ settled = Null /\ tick = 0
  /\ gFig = Factory("O") /\ gLog = <<>>

\* body of the outer for loop up to the sort: the candidates of row y
ScanRow ==
  /\ tick' = 1 - tick
  /\ pc = "row" /\ y >= 0
  /\ LET sts == StatesOfRow(world, figure, y)
         sorted == SortStates(world, figure, sts)
     IN  IF Len(sts) = 0
         THEN /\ y' = y - 1
              /\ UNCHANGED <<world, states, idx, pc, estimated>>
         ELSE /\ states' = sorted.states
              /\ world' = sorted.world
              /\ estimated' = (estimated \/ Len(sts) >= 2)
              /\ idx' = 1
              /\ pc' = "state"
              /\ y' = y
  /\ UNCHANGED <<figure, world0, figure0, frontier, explored, node, path,
                 outcome, result, thrownAt, exhausted, settled, gFig, gLog>>

\* the outer loop has run out of rows: return []
ReturnEmpty ==
  /\ tick' = 1 - tick
  /\ pc = "row" /\ y < 0
  /\ result' = <<>>
  /\ outcome' = "returned"
  /\ pc' = "done"
  /\ UNCHANGED <<world, figure, world0, figure0, y, states, idx, frontier, explored,
                 node, path, thrownAt, estimated, exhausted, settled, gFig, gLog>>

\* the for-of loop has run out of states: next row
NextRow ==
  /\ tick' = 1 - tick
  /\ pc = "state" /\ idx > Len(states)
  /\ y' = y - 1
  /\ pc' = "row"
  /\ UNCHANGED <<world, figure, world0, figure0, states, idx, frontier, explored,
                 node, path, outcome, result, thrownAt, estimated, exhausted, settled,
                 gFig, gLog>>

\* findPathFromCurrentStateToGoalState(world, state, figure) up to the loop
\* of bestFirstGraphSearch: the root is the candidate, the goal the figure
StartSearch ==
  /\ tick' = 1 - tick
  /\ pc = "state" /\ idx <= Len(states)
  /\ LET root == GraphNode(states[idx], Null, 0) IN
       IF IsGoal(root, figure)
       THEN /\ node' = root
            /\ path' = <<>>
            /\ settled' = states[idx]
            /\ pc' = "backtrace"
            /\ UNCHANGED <<frontier, explored>>
       ELSE /\ frontier' = PQAppend(<<>>, root, figure)
            /\ explored' = {}
            /\ pc' = "search"
            /\ UNCHANGED <<node, path, settled>>
  /\ UNCHANGED <<world, figure, world0, figure0, y, states, idx, outcome, result,
                 thrownAt, estimated, exhausted, gFig, gLog>>

\* the frontier is empty: the search returns null, the path is [] and the
\* for-of loop goes on with the next state
SearchExhausted ==
  /\ tick' = 1 - tick
  /\ pc = "search" /\ PQLength(frontier) = 0
  /\ idx' = idx + 1
  /\ exhausted' = exhausted + 1
  /\ pc' = "state"
  /\ UNCHANGED <<world, figure, world0, figure0, y, states, frontier, explored,
                 node, path, outcome, result, thrownAt, estimated, settled, gFig, gLog>>

\* one turn of the while loop of bestFirstGraphSearch
SearchExpand ==
  /\ tick' = 1 - tick
  /\ pc = "search" /\ PQLength(frontier) > 0
  /\ LET popped == PQPop(frontier)
         n == popped.item
     IN  IF IsGoal(n, figure)
         THEN /\ node' = n
              /\ path' = <<>>
              /\ settled' = states[idx]
              /\ frontier' = popped.queue
              /\ pc' = "backtrace"
              /\ UNCHANGED <<explored, outcome, thrownAt>>
         ELSE LET exp == ExploredAdd(explored, Id(n.state))
                  r == ForEachChild(GetSuccessorsOf(world, n), 1, popped.queue, exp, figure)
              IN  /\ explored' = exp
                  /\ frontier' = r.frontier
                  /\ IF r.thrown
                     THEN /\ outcome' = "threw"
                          /\ thrownAt' = "f(incumbent)"
                          /\ pc' = "done"
                     ELSE UNCHANGED <<outcome, thrownAt, pc>>
                  /\ UNCHANGED <<node, path, settled>>
  /\ UNCHANGED <<world, figure, world0, figure0, y, states, idx, result,
                 estimated, exhausted, gFig, gLog>>

\* one turn of for (node = goal; node !== null; node = node.parent), and
\* what solve does with the path once the loop has ended
Backtrace ==
  /\ tick' = 1 - tick
  /\ pc = "backtrace"
  /\ IF node = Null
     THEN IF Len(path) > 0
          THEN /\ result' = path
               /\ outcome' = "returned"
               /\ pc' = "done"
               /\ UNCHANGED <<node, path, idx, thrownAt>>
          ELSE /\ idx' = idx + 1
               /\ pc' = "state"
               /\ UNCHANGED <<node, path, result, outcome, thrownAt>>
     ELSE IF "state" \notin DOMAIN node
          THEN /\ outcome' = "threw"
               /\ thrownAt' = "node.state"
               /\ pc' = "done"
               /\ UNCHANGED <<node, path, idx, result>>
          ELSE /\ path' = Append(path, node.state)
               /\ node' = GetParent(node)
               /\ UNCHANGED <<idx, result, outcome, thrownAt, pc>>
  /\ UNCHANGED <<world, figure, world0, figure0, y, states, frontier, explored,
                 estimated, exhausted, settled, gFig, gLog>>

Next == ScanRow \/ ReturnEmpty \/ NextRow \/ StartSearch \/ SearchExhausted
        \/ SearchExpand \/ Backtrace

Spec == Init /\ [][Next]_vars

\* Every step of Next flips tick, and a step of Next can be taken exactly
\* when pc # "done".
Step == pc # "done" /\ tick' = 1 - tick

\* solve is one synchronous call: a step that can be taken is taken.  This
\* is WF_vars(Next), stated on the step parity.
FairSpec == Init /\ [][Next]_vars /\ WF_tick(Step)

\* =============================================================== geometry
\* A second specification: rotations and translations applied to a figure,
\* one call a step.
GeomInit ==
  /\ gFig \in SpawnFigures
  /\ gLog = <<>>
  /\ figure = gFig /\ figure0 = gFig
  /\ world = WorldOf({}) /\ world0 = world
  /\ y = -1
  /\ states = <<>> /\ idx = 1 /\ frontier = <<>> /\ explored = {}
  /\ node = Null /\ path = <<>> /\ result = <<>>
  /\ pc = "geom" /\ outcome = "running" /\ thrownAt = "none"
  /\ estimated = FALSE /\ exhausted = 0 /\ settled = Null /\ tick = 0

\* the angles rotate is called with: the three of the table, and 0, 45, -90,
\* 360 and 450
Degrees == SupportedRotations \cup {0, 45, -90, 360, 450}

\* the points translate is called with, inside and outside the grid
TranslateTargets == {<<0, 0>>, <<2, 1>>, <<-1, 3>>}

\* figure.rotate(degree): the throw comes before the first write to this.m
GRotate(degree) ==
  /\ pc = "geom" /\ Len(gLog) < MaxOps
  /\ gFig' = IF RotateThrows(degree) THEN gFig ELSE Rotate(gFig, degree)
  /\ gLog' = Append(gLog, [op |-> "rotate", arg |-> degree, before |-> gFig,
                           threw |-> RotateThrows(degree)])
  /\ UNCHANGED solverVars

\* figure.translate(vec)
GTranslate(vec) ==
  /\ pc = "geom" /\ Len(gLog) < MaxOps
  /\ gFig' = Translate(gFig, vec)
  /\ gLog' = Append(gLog, [op |-> "translate", arg |-> vec, before |-> gFig,
                           threw |-> FALSE])
  /\ UNCHANGED solverVars

GeomNext ==
  \/ \E degree \in Degrees : GRotate(degree)
  \/ \E vec \in TranslateTargets : GTranslate(vec)

GeomSpec == GeomInit /\ [][GeomNext]_vars

\* ================================================================== world
\* A third specification: locate, dislocate, sample, mayLocate and
\* estimateLocationOfFigure called on a world, one call a step; gLog holds
\* the last call, numbered.
WorldFigures ==
  {Translate(Factory(k), p) :
     k \in {"I", "L"},
     p \in {<<1, 1>>, <<0, 0>>, <<0, -2>>, <<MaxWidth - 1, MaxHeight - 1>>, <<-1, 1>>}}

\* Math.round of the values of Matrix.random(height, width): all 1, or 1 on
\* the cells with x + y odd
RoundedRandoms ==
  {<<>> \o [r \in 1..MaxHeight |-> <<>> \o [q \in 1..MaxWidth |-> 1]],
   <<>> \o [r \in 1..MaxHeight |-> <<>> \o [q \in 1..MaxWidth |-> (r + q) % 2]]}

SampleStarts == {<<-1, -1>>, <<0, 1>>}

WorldInit ==
  /\ world \in {WorldOf({}), WorldOf(Cells)}
  /\ world0 = world
  /\ gFig = Factory("O") /\ gLog = <<>>
  /\ figure = gFig /\ figure0 = gFig
  /\ y = -1
  /\ states = <<>> /\ idx = 1 /\ frontier = <<>> /\ explored = {}
  /\ node = Null /\ path = <<>> /\ result = <<>>
  /\ pc = "world" /\ outcome = "running" /\ thrownAt = "none"
  /\ estimated = FALSE /\ exhausted = 0 /\ settled = Null /\ tick = 0

\* the number of calls made so far
WCalls == IF Len(gLog) = 0 THEN 0 ELSE gLog[1].n

WCall(op, fig, ret) ==
  <<[op |-> op, arg |-> fig, before |-> world, ret |-> ret, n |-> WCalls + 1]>>

WLocate(fig) ==
  /\ pc = "world" /\ WCalls < MaxOps
  /\ world' = Locate(world, fig)
  /\ gLog' = WCall("locate", fig, FALSE)
  /\ UNCHANGED <<figure, world0, figure0, y, states, idx, frontier, explored, node, path,
                 pc, outcome, result, thrownAt, estimated, exhausted, settled, tick, gFig>>

WDislocate(fig) ==
  /\ pc = "world" /\ WCalls < MaxOps
  /\ world' = Dislocate(world, fig)
  /\ gLog' = WCall("dislocate", fig, FALSE)
  /\ UNCHANGED <<figure, world0, figure0, y, states, idx, frontier, explored, node, path,
                 pc, outcome, result, thrownAt, estimated, exhausted, settled, tick, gFig>>

WSample(start, round) ==
  /\ pc = "world" /\ WCalls < MaxOps
  /\ world' = Sample(world, start[1], start[2], round)
  /\ gLog' = WCall("sample", gFig, FALSE)
  /\ UNCHANGED <<figure, world0, figure0, y, states, idx, frontier, explored, node, path,
                 pc, outcome, result, thrownAt, estimated, exhausted, settled, tick, gFig>>

WMayLocate(fig) ==
  /\ pc = "world" /\ WCalls < MaxOps
  /\ gLog' = WCall("mayLocate", fig, MayLocate(world, fig))
  /\ UNCHANGED <<world, figure, world0, figure0, y, states, idx, frontier, explored, node,
                 path, pc, outcome, result, thrownAt, estimated, exhausted, settled, tick,
                 gFig>>

\* the test poses estimateLocationOfFigure is called with: inside the grid
\* and across its left and its lower right edge
EstimateTests ==
  {Translate(Factory("L"), p) : p \in {<<1, 1>>, <<-1, 1>>, <<MaxWidth - 1, MaxHeight - 1>>}}

\* estimateLocationOfFigure(world, goal, test): locate(test), the count,
\* dislocate(test)
WEstimate(fig) ==
  /\ pc = "world" /\ WCalls < MaxOps
  /\ LET est == EstimateLocationOfFigure(world, figure, fig)
     IN  /\ world' = est.world
         /\ gLog' = WCall("estimateLocationOfFigure", fig, [num |-> est.num, den |-> est.den])
  /\ UNCHANGED <<figure, world0, figure0, y, states, idx, frontier, explored, node, path,
                 pc, outcome, result, thrownAt, estimated, exhausted, settled, tick, gFig>>

WorldNext ==
  \/ \E fig \in EstimateTests : WEstimate(fig)
  \/ \E fig \in WorldFigures : WLocate(fig)
  \/ \E fig \in WorldFigures : WDislocate(fig)
  \/ \E start \in SampleStarts, round \in RoundedRandoms : WSample(start, round)
  \/ \E fig \in WorldFigures : WMayLocate(fig)

WorldSpec == WorldInit /\ [][WorldNext]_vars

\* ============================================================= candidates
\* A fourth specification: the candidate pipeline of one row of solve,
\* getPermutationsOfFigureAtPoints then getLocatableStatesOnly, a call a step;
\* gLog holds the calls with their argument and return value.
CandInit ==
  /\ figure \in SpawnFigures
  /\ world \in InputWorlds(figure)
  /\ world0 = world /\ figure0 = figure
  /\ y \in 0..(Height(world) - 1)
  /\ gFig = Factory("O") /\ gLog = <<>>
  /\ states = <<>> /\ idx = 1 /\ frontier = <<>> /\ explored = {}
  /\ node = Null /\ path = <<>> /\ result = <<>>
  /\ pc = "cand" /\ outcome = "running" /\ thrownAt = "none"
  /\ estimated = FALSE /\ exhausted = 0 /\ settled = Null /\ tick = 0

\* getPermutationsOfFigureAtPoints(figure, points) on the empty cells of row
\* y, as solve calls it, or on those cells with the first one listed twice
CPermutations(twice) ==
  /\ pc = "cand"
  /\ LET cells == EmptyCellsOfRow(world, y)
         points == IF twice /\ Len(cells) > 0 THEN Append(cells, cells[1]) ELSE cells
     IN  gLog' = <<[op |-> "getPermutationsOfFigureAtPoints", arg |-> points,
                    ret |-> GetPermutationsOfFigureAtPoints(figure, points)]>>
  /\ pc' = "untrusted"
  /\ UNCHANGED <<world, figure, world0, figure0, y, states, idx, frontier, explored, node,
                 path, outcome, result, thrownAt, estimated, exhausted, settled, tick, gFig>>

\* getLocatableStatesOnly(world, untrustedStates)
CGetLocatable ==
  /\ pc = "untrusted"
  /\ gLog' = Append(gLog, [op |-> "getLocatableStatesOnly", arg |-> gLog[1].ret,
                           ret |-> GetLocatableStatesOnly(world, gLog[1].ret)])
  /\ pc' = "located"
  /\ UNCHANGED <<world, figure, world0, figure0, y, states, idx, frontier, explored, node,
                 path, outcome, result, thrownAt, estimated, exhausted, settled, tick, gFig>>

CandNext == (\E twice \in BOOLEAN : CPermutations(twice)) \/ CGetLocatable

CandSpec == CandInit /\ [][CandNext]_vars

\* ================================================================== queue
\* A fifth specification: append, remove and pop called on the frontier of
\* astarGraphSearch, one call a step; figure is the goal state of f, gLog
\* holds the last call.
QueueShifts == {<<0, 0>>, <<1, 0>>, <<0, 1>>, <<1, 1>>, <<2, 2>>}

\* the nodes handed to the frontier: new GraphNode(state) of the goal moved
QueueNodes == {GraphNode(Move(figure, d), Null, 0) : d \in QueueShifts}

QueueInit ==
  /\ figure \in {Factory(k) : k \in KIND}
  /\ figure0 = figure
  /\ world = WorldOf({}) /\ world0 = world
  /\ frontier = <<>>
  /\ gFig = Factory("O") /\ gLog = <<>>
  /\ y = -1
  /\ states = <<>> /\ idx = 1 /\ explored = {}
  /\ node = Null /\ path = <<>> /\ result = <<>>
  /\ pc = "queue" /\ outcome = "running" /\ thrownAt = "none"
  /\ estimated = FALSE /\ exhausted = 0 /\ settled = Null /\ tick = 0

QAppend(item) ==
  /\ pc = "queue" /\ PQLength(frontier) < MaxOps
  /\ frontier' = PQAppend(frontier, item, figure)
  /\ gLog' = <<[op |-> "append", arg |-> item, before |-> frontier, threw |-> FALSE]>>
  /\ UNCHANGED <<world, figure, world0, figure0, y, states, idx, explored, node, path, pc,
                 outcome, result, thrownAt, estimated, exhausted, settled, tick, gFig>>

QRemove(item) ==
  /\ pc = "queue"
  /\ frontier' = PQRemove(frontier, item)
  /\ gLog' = <<[op |-> "remove", arg |-> item, before |-> frontier, threw |-> FALSE]>>
  /\ UNCHANGED <<world, figure, world0, figure0, y, states, idx, explored, node, path, pc,
                 outcome, result, thrownAt, estimated, exhausted, settled, tick, gFig>>

\* pop: const [, , item] = this.__queue.pop() is a TypeError on the empty queue
QPop ==
  /\ pc = "queue"
  /\ IF PQLength(frontier) = 0
     THEN /\ gLog' = <<[op |-> "pop", arg |-> Null, before |-> frontier, threw |-> TRUE]>>
          /\ UNCHANGED frontier
     ELSE /\ gLog' = <<[op |-> "pop", arg |-> PQPop(frontier).item, before |-> frontier,
                        threw |-> FALSE]>>
          /\ frontier' = PQPop(frontier).queue
  /\ UNCHANGED <<world, figure, world0, figure0, y, states, idx, explored, node, path, pc,
                 outcome, result, thrownAt, estimated, exhausted, settled, tick, gFig>>

QueueNext ==
  \/ \E item \in QueueNodes : QAppend(item)
  \/ \E item \in QueueNodes : QRemove(item)
  \/ QPop

QueueSpec == QueueInit /\ [][QueueNext]_vars

\* ============================================================= successors
\* A sixth specification: getSuccessorsOf called once on a node of the
\* figure at a chosen cell and turn; node is the node after the call, gLog
\* holds the call.
SuccCenters == {<<1, 1>>, <<1, MaxHeight - 2>>, <<0, MaxHeight - 1>>, <<MaxWidth - 1, 0>>}

SuccInit ==
  /\ figure \in SpawnFigures
  /\ world \in InputWorlds(figure)
  /\ world0 = world /\ figure0 = figure
  /\ gFig = Factory("O") /\ gLog = <<>>
  /\ y = -1
  /\ states = <<>> /\ idx = 1 /\ frontier = <<>> /\ explored = {}
  /\ node = Null /\ path = <<>> /\ result = <<>>
  /\ pc = "succ" /\ outcome = "running" /\ thrownAt = "none"
  /\ estimated = FALSE /\ exhausted = 0 /\ settled = Null /\ tick = 0

\* getSuccessorsOf(node): every write goes to a clone of node.state, and the
\* world is read only
SGetSuccessorsOf(state) ==
  /\ pc = "succ"
  /\ LET n == GraphNode(state, Null, 0)
     IN  /\ gLog' = <<[op |-> "getSuccessorsOf", arg |-> n,
                       ret |-> GetSuccessorsOf(world, n)]>>
         /\ node' = n
  /\ pc' = "expanded"
  /\ UNCHANGED <<world, figure, world0, figure0, y, states, idx, frontier, explored,
                 path, outcome, result, thrownAt, estimated, exhausted, settled, tick, gFig>>

SuccNext ==
  \E cell \in SuccCenters, turned \in BOOLEAN :
    SGetSuccessorsOf(IF turned THEN Rotate(Translate(figure, cell), 90)
                               ELSE Translate(figure, cell))

SuccSpec == SuccInit /\ [][SuccNext]_vars

\* the figure after the n-th logged operation
GAfter(n) == IF n = Len(gLog) THEN gFig ELSE gLog[n + 1].before

\* ======================================================= claims: C1 .. C10
\* What the search graph says, computed apart from the search: the poses
\* from which legal successor steps lead to the pose of the figure.
LegalPose(w, p) == InRange(w, p) /\ MayLocate(w, p)

SuccessorStates(w, p) ==
  LET nodes == GetSuccessorsOf(w, GraphNode(p, Null, 0))
  IN  {nodes[i].state : i \in 1..Len(nodes)}

RECURSIVE GrowReach(_, _, _)
GrowReach(w, all, R) ==
  CHOOSE X \in {IF R2 = R THEN R ELSE GrowReach(w, all, R2) :
                R2 \in {R \cup {p \in all : SuccessorStates(w, p) \cap R # {}}}} : TRUE

CanReachFigure ==
  LET all == {p \in PosesOf(figure0) : LegalPose(world0, p)}
  IN  GrowReach(world0, all, {p \in all : Id(p) = Id(figure0)})

\* the legal candidates of row r
CandidatesOfRow(r) ==
  LET sts == StatesOfRow(world0, figure0, r) IN {sts[i] : i \in 1..Len(sts)}

ConnectedRows ==
  {r \in 0..(Height(world0) - 1) : CandidatesOfRow(r) \cap CanReachFigure # {}}

\* some row has a legal candidate that the figure's pose is connected to
Solvable == ConnectedRows # {}

PlanReturned == pc = "done" /\ outcome = "returned" /\ Len(result) > 0

RestingPose == result[Len(result)]

Score(p) == EstimateLocationOfFigure(world0, figure0, p)

SingleStep(a, b) ==
  \/ \E d \in {<<0, -1>>, <<0, 1>>, <<-1, 0>>, <<1, 0>>} : b = Move(a, d)
  \/ \E degree \in SupportedRotations : b = Rotate(a, degree)

C5_ExhaustionIsNoError ==
  (pc = "done" /\ ~Solvable) => (outcome = "returned" /\ result = <<>>)

C8_EmptyWorldO ==
  (pc = "done" /\ Width(world0) = 4 /\ Height(world0) = 4
     /\ world0 = WorldOf({}) /\ figure0 = Factory("O")) =>
    (PlanReturned /\ (\E i \in 1..Len(RestingPose.m) : RestingPose.m[i][2] = 3)
       /\ LegalPose(world0, RestingPose))

\* C9: when solve has returned, the world holds in every cell the value
\* it held at the call and the figure is the one passed in.
C9_SolveLeavesInputs ==
  outcome = "returned" => (world = world0 /\ figure = figure0)

\* C9 witness: solve returned after the sort comparator placed and
\* cleared candidates on the world
C9_Witness == outcome = "returned" /\ estimated

\* C10: rotate(a) then rotate(360 - a) gives back the point sequence and
\* the center index the figure had, for a in {90, 180, 270}.
C10_RotateRoundTrip ==
  \A n \in 2..Len(gLog) :
    (gLog[n - 1].op = "rotate" /\ gLog[n].op = "rotate"
       /\ gLog[n].arg = 360 - gLog[n - 1].arg)
      => GAfter(n) = gLog[n - 1].before

\* C10 witness: a rotation by 90 that moved points, undone by one by 270
C10_Witness ==
  /\ Len(gLog) >= 2
  /\ gLog[Len(gLog) - 1].op = "rotate" /\ gLog[Len(gLog) - 1].arg = 90
  /\ gLog[Len(gLog)].op = "rotate" /\ gLog[Len(gLog)].arg = 270
  /\ gLog[Len(gLog)].before # gLog[Len(gLog) - 1].before
  /\ gFig = gLog[Len(gLog) - 1].before

\* C11: after translate(p) the point at the center index is p, and every
\* point has moved by the delta the center moved by (same order, same
\* center index, same number of points).
C11_TranslateRigid ==
  \A n \in 1..Len(gLog) :
    gLog[n].op = "translate" =>
      LET b == gLog[n].before
          a == GAfter(n)
          dx == gLog[n].arg[1] - GetCenter(b)[1]
          dy == gLog[n].arg[2] - GetCenter(b)[2]
      IN  /\ a.c = b.c /\ Len(a.m) = Len(b.m)
          /\ GetCenter(a) = gLog[n].arg
          /\ \A i \in 1..Len(b.m) : a.m[i] = <<b.m[i][1] + dx, b.m[i][2] + dy>>

\* C11 witness: a translate to a point that was not the center, of a figure
\* that an earlier rotation had turned
C11_Witness ==
  /\ Len(gLog) >= 2
  /\ gLog[Len(gLog)].op = "translate"
  /\ gLog[Len(gLog)].arg # GetCenter(gLog[Len(gLog)].before)
  /\ gLog[Len(gLog) - 1].op = "rotate" /\ ~gLog[Len(gLog) - 1].threw
  /\ GetCenter(gFig) = gLog[Len(gLog)].arg

\* C12: rotate with an angle other than 90, 180 and 270 throws and leaves
\* the points and the center index as they were.
C12_UnsupportedRotationThrows ==
  \A n \in 1..Len(gLog) :
    (gLog[n].op = "rotate" /\ gLog[n].arg \notin {90, 180, 270}) =>
      (gLog[n].threw /\ GAfter(n) = gLog[n].before)

\* C12 witness: rotate(450) threw on a figure that rotate(90) does change
C12_Witness ==
  /\ Len(gLog) >= 1
  /\ gLog[Len(gLog)].op = "rotate" /\ gLog[Len(gLog)].arg = 450
  /\ gLog[Len(gLog)].threw
  /\ Rotate(gFig, 90) # gFig

\* the points of fig that lie inside the grid of w
InGridPoints(w, fig) ==
  {pt \in PointsOf(fig) :
     pt[1] >= 0 /\ pt[1] < Len(w[1]) /\ pt[2] >= 0 /\ pt[2] < Len(w)}

\* C13: mayLocate(figure) is false when some point of the figure inside the
\* grid lies on a cell that is not EMPTY, true when every point inside the
\* grid lies on an EMPTY cell, and the world is the same after the call.
C13_MayLocateInGridOnly ==
  (pc = "world" /\ Len(gLog) = 1 /\ gLog[1].op = "mayLocate") =>
    /\ gLog[1].ret =
         (\A pt \in InGridPoints(gLog[1].before, gLog[1].arg) :
            gLog[1].before[pt[2] + 1][pt[1] + 1] = EMPTY_SPACE)
    /\ world = gLog[1].before

\* C13 witness: mayLocate returned false for a figure whose first two points
\* are outside the grid and whose only point on a cell that is not EMPTY has
\* index 3
C13_Witness ==
  /\ pc = "world" /\ Len(gLog) = 1 /\ gLog[1].op = "mayLocate"
  /\ ~gLog[1].ret
  /\ InGridPoints(world, gLog[1].arg) = {gLog[1].arg.m[4]}
  /\ world[gLog[1].arg.m[4][2] + 1][gLog[1].arg.m[4][1] + 1] # EMPTY_SPACE

\* C16: after locate, dislocate and sample calls every cell of the world
\* holds EMPTY_SPACE, WALL or FIGURE, the world has the width and height it
\* was constructed with, and a locate or dislocate call changed no cell
\* other than those of the figure's points inside the grid.
C16_CellsAndShapeKept ==
  pc = "world" =>
    /\ Height(world) = Height(world0) /\ Width(world) = Width(world0)
    /\ \A r \in 1..Height(world) :
         /\ Len(world[r]) = Width(world0)
         /\ \A q \in 1..Width(world) : world[r][q] \in {EMPTY_SPACE, WALL, FIGURE}
    /\ (Len(gLog) = 1 /\ gLog[1].op \in {"locate", "dislocate"}) =>
         \A r \in 1..Height(world), q \in 1..Width(world) :
           IF <<q - 1, r - 1>> \in InGridPoints(gLog[1].before, gLog[1].arg)
             THEN world[r][q] = (IF gLog[1].op = "locate" THEN FIGURE ELSE EMPTY_SPACE)
             ELSE world[r][q] = gLog[1].before[r][q]

\* C16 witness: the third call, a locate of a figure with points on both
\* sides of the grid's edge, on a world that holds a WALL and a FIGURE cell
C16_Witness ==
  /\ pc = "world" /\ Len(gLog) = 1 /\ gLog[1].op = "locate" /\ gLog[1].n = 3
  /\ InGridPoints(world, gLog[1].arg) # {}
  /\ InGridPoints(world, gLog[1].arg) # PointsOf(gLog[1].arg)
  /\ \E r \in 1..Height(world), q \in 1..Width(world) : gLog[1].before[r][q] = WALL
  /\ \E r \in 1..Height(world), q \in 1..Width(world) : gLog[1].before[r][q] = FIGURE

\* every point of fig is a cell of the grid of w and that cell is EMPTY
AllPointsOnEmptyCells(w, fig) ==
  \A pt \in PointsOf(fig) :
    /\ pt[1] >= 0 /\ pt[1] < Len(w[1]) /\ pt[2] >= 0 /\ pt[2] < Len(w)
    /\ w[pt[2] + 1][pt[1] + 1] = EMPTY_SPACE

\* C14: getLocatableStatesOnly returns the input poses that lie inside the
\* grid on EMPTY cells only, all of them, in the order of the input.
C14_LocatableSubsequence ==
  (pc = "located") =>
    LET in == gLog[2].arg
        out == gLog[2].ret
    IN  /\ \A i \in 1..Len(out) :
             /\ \E j \in 1..Len(in) : in[j] = out[i]
             /\ AllPointsOnEmptyCells(world, out[i])
        /\ \A j \in 1..Len(in) :
             AllPointsOnEmptyCells(world, in[j]) => \E i \in 1..Len(out) : out[i] = in[j]
        /\ \A i \in 1..Len(out), k \in 1..Len(out) :
             i < k => \E a \in 1..Len(in), b \in 1..Len(in) :
                        a < b /\ in[a] = out[i] /\ in[b] = out[k]

\* C14 witness: the filter kept two poses or more, dropped a pose that
\* reaches outside the grid over EMPTY cells and dropped a pose inside the
\* grid that covers a WALL
C14_Witness ==
  /\ pc = "located" /\ Len(gLog[2].ret) >= 2
  /\ \E j \in 1..Len(gLog[2].arg) :
       /\ ~InRange(world, gLog[2].arg[j]) /\ MayLocate(world, gLog[2].arg[j])
       /\ \A i \in 1..Len(gLog[2].ret) : gLog[2].ret[i] # gLog[2].arg[j]
  /\ \E j \in 1..Len(gLog[2].arg) :
       /\ InRange(world, gLog[2].arg[j]) /\ ~MayLocate(world, gLog[2].arg[j])
       /\ \A i \in 1..Len(gLog[2].ret) : gLog[2].ret[i] # gLog[2].arg[j]

\* C15: getPermutationsOfFigureAtPoints on N points returns at most 4N
\* poses with pairwise different ids, and for every point and each of the
\* turns 0, 90, 180, 270 the figure translated to the point and turned has
\* its id among them.
C15_PermutationsUnique ==
  (pc \in {"untrusted", "located"}) =>
    LET points == gLog[1].arg
        out == gLog[1].ret
        ids == {Id(out[i]) : i \in 1..Len(out)}
    IN  /\ Len(out) <= 4 * Len(points)
        /\ Cardinality(ids) = Len(out)
        /\ \A n \in 1..Len(points) :
             LET at == Translate(figure, points[n])
             IN  {Id(at), Id(Rotate(at, 90)), Id(Rotate(at, 180)), Id(Rotate(at, 270))}
                   \subseteq ids

\* C15 witness: a call with a point listed twice returned fewer than 4N
\* poses, four of them for each different point
C15_Witness ==
  /\ pc = "untrusted"
  /\ \E a \in 1..Len(gLog[1].arg), b \in 1..Len(gLog[1].arg) :
       a # b /\ gLog[1].arg[a] = gLog[1].arg[b]
  /\ Len(gLog[1].ret) = 4 * (Len(gLog[1].arg) - 1)
  /\ Len(gLog[1].ret) >= 8

\* C17: a search whose root pose is joined to the goal pose by legal
\* successor steps returns the goal node: it neither returns null nor is
\* it left by an error.
C17_SearchComplete ==
  /\ (pc = "state" /\ idx > 1) => states[idx - 1] \notin CanReachFigure
  /\ (pc = "done" /\ thrownAt = "f(incumbent)") => states[idx] \notin CanReachFigure

\* the frontier after the for loop over the successors, from the i-th on,
\* when a successor met in the frontier is compared with the node held there
RECURSIVE ReplaceIffLower(_, _, _, _, _)
ReplaceIffLower(children, i, q, expl, goalState) ==
  IF i > Len(children) THEN q
  ELSE LET child == children[i]
           held == {j \in 1..Len(q) : q[j].id = Id(child.state)}
       IN  IF held # {}
           THEN LET j == CHOOSE k \in held : TRUE
                    rest == SubSeq(q, 1, j - 1) \o SubSeq(q, j + 1, Len(q))
                IN  IF F(child, goalState) < F(q[j].item, goalState)
                    THEN ReplaceIffLower(children, i + 1, PQAppend(rest, child, goalState),
                                         expl, goalState)
                    ELSE ReplaceIffLower(children, i + 1, q, expl, goalState)
           ELSE IF Id(child.state) \notin expl
                THEN ReplaceIffLower(children, i + 1, PQAppend(q, child, goalState),
                                     expl, goalState)
                ELSE ReplaceIffLower(children, i + 1, q, expl, goalState)

\* C18: a turn of the search loop that expands a node leaves the frontier
\* with every successor it already held replaced if and only if the
\* successor's f is strictly lower than the held node's, and the search
\* goes on.
C18_ReplaceIffLowerF ==
  [][(pc = "search" /\ PQLength(frontier) > 0
        /\ ~IsGoal(PQPop(frontier).item, figure)) =>
       (/\ outcome' = "running" /\ pc' = "search"
        /\ frontier' = ReplaceIffLower(GetSuccessorsOf(world, PQPop(frontier).item), 1,
                                       PQPop(frontier).queue,
                                       explored \cup {Id(PQPop(frontier).item.state)},
                                       figure))]_vars

\* C19: in a running search the frontier's node of the root pose has path
\* cost 0 and every other node of the frontier holds its parent node and a
\* path cost of the parent's plus 1.
C19_NodesHoldParentAndCost ==
  pc = "search" =>
    \A j \in 1..Len(frontier) :
      LET n == frontier[j].item IN
        IF Id(n.state) = Id(states[idx])
        THEN n.pathCost = 0
        ELSE /\ GetParent(n) # Undefined
             /\ n.pathCost = GetParent(n).pathCost + 1

\* the number of entries of the queue q that hold the node n
CountOf(q, n) == Cardinality({j \in 1..Len(q) : q[j].item = n})

\* C20: a pop on a frontier built by append, remove and pop calls returns a
\* node of the frontier whose f = pathCost + h is the least of the f of all
\* nodes the frontier held, and takes one entry of that node out.
C20_PopReturnsMinF ==
  (pc = "queue" /\ Len(gLog) = 1 /\ gLog[1].op = "pop" /\ ~gLog[1].threw) =>
    LET q == gLog[1].before
        got == gLog[1].arg
        fOf(n) == n.pathCost * Len(figure.m)
                    + SeqSum(<<>> \o [i \in 1..Len(figure.m) |->
                        Abs(n.state.m[i][1] - figure.m[i][1])
                          + Abs(n.state.m[i][2] - figure.m[i][2])])
    IN  /\ CountOf(q, got) >= 1
        /\ \A j \in 1..Len(q) : fOf(got) <= fOf(q[j].item)
        /\ Len(frontier) = Len(q) - 1
        /\ \A n \in QueueNodes :
             CountOf(frontier, n) = CountOf(q, n) - (IF n = got THEN 1 ELSE 0)

\* C20 witness: a pop on a frontier of three nodes of three different f
C20_Witness ==
  /\ pc = "queue" /\ Len(gLog) = 1 /\ gLog[1].op = "pop" /\ ~gLog[1].threw
  /\ Len(gLog[1].before) = 3
  /\ Cardinality({gLog[1].before[j].cost : j \in 1..3}) = 3
  /\ Len(frontier) = 2

\* C21: once a search has found the goal node, the path handed back starts
\* with the pose of the search's root, ends with the goal pose, and each of
\* its poses is followed by one of its successors.
C21_BacktraceRootFirst ==
  (pc = "done" /\ settled # Null) =>
    /\ outcome = "returned" /\ Len(result) > 0
    /\ Id(result[1]) = Id(settled)
    /\ Id(result[Len(result)]) = Id(figure0)
    /\ \A i \in 1..(Len(result) - 1) :
         result[i + 1] \in SuccessorStates(world0, result[i])

\* C22: the poses of the successors of a node are the poses that lie inside
\* the grid on EMPTY cells among the node's pose moved one cell up, left and
\* right and turned by 0, 90, 180 and 270 about its center; the pose moved
\* one cell down is not among them, and the node's pose and the world are
\* as before the call.
C22_SuccessorsUpLeftRightTurns ==
  (pc = "expanded") =>
    LET p == gLog[1].arg.state
        got == {gLog[1].ret[i].state : i \in 1..Len(gLog[1].ret)}
        moves == {[p EXCEPT !.m = <<>> \o [i \in 1..Len(p.m) |->
                                     <<p.m[i][1] + d[1], p.m[i][2] + d[2]>>]] :
                    d \in {<<0, -1>>, <<-1, 0>>, <<1, 0>>}}
        turns == {p, Rotate(p, 90), Rotate(p, 180), Rotate(p, 270)}
        down == [p EXCEPT !.m = <<>> \o [i \in 1..Len(p.m) |-> <<p.m[i][1], p.m[i][2] + 1>>]]
    IN  /\ got = {q \in moves \cup turns : AllPointsOnEmptyCells(world0, q)}
        /\ down \notin got
        /\ node.state = p
        /\ world = world0

\* C22 witness: a node whose pose moved down is legal, with three successors
\* or more and a move or turn that is not legal
C22_Witness ==
  /\ pc = "expanded"
  /\ AllPointsOnEmptyCells(world0, Move(gLog[1].arg.state, <<0, 1>>))
  /\ AllPointsOnEmptyCells(world0, gLog[1].arg.state)
  /\ Len(gLog[1].ret) >= 3
  /\ Len(gLog[1].ret) < 7

\* C23: at every turn of the search loop no id is held by two entries of
\* the frontier and no id of the explored set is held by an entry of the
\* frontier, so the node popped next is one that was not expanded before.
C23_FrontierIdsOnce ==
  (pc = "search") =>
    /\ \A i \in 1..Len(frontier), j \in 1..Len(frontier) :
         i # j => frontier[i].id # frontier[j].id
    /\ \A i \in 1..Len(frontier) :
         /\ frontier[i].id \notin explored
         /\ frontier[i].id = Id(frontier[i].item.state)

\* C23 witness: a turn of the loop with two explored ids, two frontier
\* entries or more, and a frontier node one of whose successors is explored
C23_Witness ==
  /\ pc = "search" /\ Cardinality(explored) >= 2 /\ Len(frontier) >= 2
  /\ \E i \in 1..Len(frontier) :
       \E q \in SuccessorStates(world, frontier[i].item.state) :
         Id(q) \in explored /\ Id(q) # frontier[i].id

\* C24: after estimateLocationOfFigure(world, goal, test) has returned,
\* every cell of the world holds the value it held before the call, for a
\* test pose on EMPTY cells, on WALL cells or partly outside the grid alike.
C24_EstimateRestoresWorld ==
  (pc = "world" /\ Len(gLog) = 1 /\ gLog[1].op = "estimateLocationOfFigure") =>
    world = gLog[1].before

====
